---- MODULE Spec2Model ----
(***************************************************************************)
(* Candidate-Elimination over conjunctive hypotheses (ce_algorithm.py).    *)
(* A hypothesis / an instance is a tuple of factors; S and G are Python    *)
(* lists of tuples, modelled as sequences (order and duplicates matter).   *)
(* The interpreter is Python 2 (print statements in _runAlgorithm).        *)
(***************************************************************************)
EXTENDS Integers, Sequences, FiniteSets, TLC

VARIABLES trainingSet, numFactors, count, S, G, pc, query, result,
          callHyp1, callHyp2, more, specific

\* callHyp1, callHyp2: the arguments of a direct call of _moreGeneral / _moreSpecific;
\* more, specific: what the calls returned (<< >> before the call)
order == <<callHyp1, callHyp2, more, specific>>

vars == <<trainingSet, numFactors, count, S, G, pc, query, result, order>>

(* ---------------- bounds of the model ---------------- *)
MaxFactors == 3
MaxLen == 4
\* attribute values in a training set: attributes times examples
MaxCells == 9
\* the same, for training sets that may hold an invalid label
MaxLabelCells == 6
\* factors times examples in the runs checked for termination
MaxFairCells == 7

(* ---------------- values ---------------- *)
Positive == 0
Negative == 1

Values == {"Y", "N"}
Labels == {"+", "-"}

Range(seq) == {seq[i] : i \in 1..Len(seq)}

Instances(n) == [1..n -> Values]

Examples(n) == {<<x, l>> : x \in Instances(n), l \in Labels}

TrainingSets(n, len) == [1..len -> Examples(n)]

(* ---------------- Python list primitives ---------------- *)
\* A list the code holds in a local variable between two statements is bound
\* here as the one member of a set, new \in {value}: the value is computed
\* once by the assignment and read by what follows, and the result is drawn
\* from the resulting set of one.
RECURSIVE IndexOfFrom(_, _, _)
IndexOfFrom(seq, x, i) ==
    IF i > Len(seq) THEN 0
    ELSE IF seq[i] = x THEN i
    ELSE IndexOfFrom(seq, x, i + 1)

\* list.remove(x): drops the first occurrence of x (the callers handle absence)
ListRemove(seq, x) ==
    LET k == IndexOfFrom(seq, x, 1)
    IN  IF k = 0 THEN seq
        ELSE SubSeq(seq, 1, k - 1) \o SubSeq(seq, k + 1, Len(seq))

(* ---------------- Representation: factor and hypothesis primitives ------- *)
_factorMatch(factor1, factor2) ==
    IF factor1 # factor2
    THEN ~(factor1 # "?" /\ factor2 # "?")
    ELSE TRUE

_match(hyp, instance) ==
    \A i \in 1..Len(hyp) : _factorMatch(hyp[i], instance[i])

_getFactorContradictions(tup1, tup2) ==
    {i \in 1..Len(tup1) : ~_factorMatch(tup1[i], tup2[i])}

\* variant: the wildcard test after the match is left out
moreGeneralMatchOnly(hyp1, hyp2) == _match(hyp1, hyp2)

_moreGeneral(hyp1, hyp2) ==
    IF _match(hyp1, hyp2)
    THEN ~(\E i \in 1..Len(hyp2) : hyp2[i] = "?" /\ hyp1[i] # "?")
    ELSE FALSE

_moreSpecific(hyp1, hyp2) == _moreGeneral(hyp2, hyp1)

_initializeS(n) == << [i \in 1..n |-> "0"] >>

_initializeG(n) == << [i \in 1..n |-> "?"] >>

\* variant: no label is rejected (anything but '+' counts as negative)
AnyLabelValid(example) == TRUE

\* _isPositive returns for '+' and '-' and raises TypeError for anything else
ValidLabel(example) == example[2] \in {"+", "-"}

_isPositive(example) == example[2] = "+"

\* variant: a contradicting factor takes the instance's value, whatever the
\* hypothesis held there
getMinGeneralizationCopy(s, instance) ==
    LET contradictions == _getFactorContradictions(s, instance)
    IN  [i \in 1..Len(s) |->
            IF i \in contradictions THEN instance[i] ELSE s[i]]

_getMinGeneralization(s, instance) ==
    LET contradictions == _getFactorContradictions(s, instance)
    IN  [i \in 1..Len(s) |->
            IF i \in contradictions
            THEN IF s[i] = "0" THEN instance[i] ELSE "?"
            ELSE s[i]]

RECURSIVE SpecializationsFrom(_, _, _)
SpecializationsFrom(g, instance, i) ==
    IF i > Len(g) THEN << >>
    ELSE IF g[i] = "?"
         THEN << [g EXCEPT ![i] = IF instance[i] = "Y" THEN "N" ELSE "Y"] >>
              \o SpecializationsFrom(g, instance, i + 1)
         ELSE SpecializationsFrom(g, instance, i + 1)

\* variant: a wildcard is replaced by the instance's value instead of the
\* opposite one
getMinSpecializationsNoFlip(g, instance) ==
    SelectSeq([i \in 1..Len(g) |->
                  [g EXCEPT ![i] = IF g[i] = "?" THEN instance[i] ELSE g[i]]],
              LAMBDA hyp : hyp # g)

_getMinSpecializations(g, instance) == SpecializationsFrom(g, instance, 1)

(* ---------------- Representation: boundary filters ---------------- *)
RECURSIVE RemoveNonMatchingFrom(_, _, _, _)
RemoveNonMatchingFrom(hypotheses, instance, i, hypothesesNew) ==
    IF i > Len(hypotheses) THEN hypothesesNew
    ELSE CHOOSE r \in
            {RemoveNonMatchingFrom(hypotheses, instance, i + 1, new) :
                new \in {IF ~_match(hypotheses[i], instance)
                         THEN ListRemove(hypothesesNew, hypotheses[i])
                         ELSE hypothesesNew}} : TRUE

_removeNonMatching(hypotheses, instance) ==
    RemoveNonMatchingFrom(hypotheses, instance, 1, hypotheses)

RECURSIVE RemoveMatchingFrom(_, _, _, _)
RemoveMatchingFrom(hypotheses, instance, i, hypothesesNew) ==
    IF i > Len(hypotheses) THEN hypothesesNew
    ELSE CHOOSE r \in
            {RemoveMatchingFrom(hypotheses, instance, i + 1, new) :
                new \in {IF _match(hypotheses[i], instance)
                         THEN ListRemove(hypothesesNew, hypotheses[i])
                         ELSE hypothesesNew}} : TRUE

_removeMatching(hypotheses, instance) ==
    RemoveMatchingFrom(hypotheses, instance, 1, hypotheses)

_removeMoreGeneral(hypothesis) == hypothesis

\* inner loop over g2 for one g1: the first g2 that dominates g1 removes g1
\* and breaks; a ValueError (g1 already gone) continues with the next g2
RECURSIVE RemoveMoreSpecificInner(_, _, _, _)
RemoveMoreSpecificInner(hypothesis, g1, j, hypothesisNew) ==
    IF j > Len(hypothesis) THEN hypothesisNew
    ELSE IF g1 # hypothesis[j] /\ _moreSpecific(g1, hypothesis[j])
         THEN IF IndexOfFrom(hypothesisNew, g1, 1) # 0
              THEN ListRemove(hypothesisNew, g1)
              ELSE RemoveMoreSpecificInner(hypothesis, g1, j + 1, hypothesisNew)
         ELSE RemoveMoreSpecificInner(hypothesis, g1, j + 1, hypothesisNew)

RECURSIVE RemoveMoreSpecificFrom(_, _, _)
RemoveMoreSpecificFrom(hypothesis, i, hypothesisNew) ==
    IF i > Len(hypothesis) THEN hypothesisNew
    ELSE CHOOSE r \in
            {RemoveMoreSpecificFrom(hypothesis, i + 1, new) :
                new \in {RemoveMoreSpecificInner(hypothesis, hypothesis[i], 1,
                                                 hypothesisNew)}} : TRUE

\* variant: the pruning step left out
removeMoreSpecificNoPrune(hypothesis) == hypothesis

_removeMoreSpecific(hypothesis) ==
    RemoveMoreSpecificFrom(hypothesis, 1, hypothesis)

\* for s in S: for hyp in specializations: keep hyp when it is more general
\* than s, or when s is the all-null seed
RECURSIVE ProcessSpecializationsFrom(_, _, _, _)
ProcessSpecializationsFrom(specializations, Sx, n, k) ==
    IF k > Len(Sx) THEN << >>
    ELSE SelectSeq(specializations,
                   LAMBDA hyp : \/ _moreGeneral(hyp, Sx[k])
                                \/ Sx[k] = _initializeS(n)[1])
         \o ProcessSpecializationsFrom(specializations, Sx, n, k + 1)

\* variant: every specialization is kept, whatever S holds
processSpecializationsKeepAll(specializations, Sx, n) == specializations

_processSpecializations(specializations, Sx, n) ==
    ProcessSpecializationsFrom(specializations, Sx, n, 1)

\* variant: a generalization equal to a member of G is not accepted
processGeneralizationStrict(generalization, Gx) ==
    IF Gx = << >> THEN TRUE
    ELSE \E i \in 1..Len(Gx) : /\ generalization # Gx[i]
                                /\ _moreSpecific(generalization, Gx[i])

_processGeneralization(generalization, Gx) ==
    IF Gx = << >> THEN TRUE
    ELSE \E i \in 1..Len(Gx) : _moreSpecific(generalization, Gx[i])

(* ---------------- CandidateEliminator: one pass of the loop body --------- *)
\* variant: the hypothesis that fails to match is left in Snew beside its
\* generalization
RECURSIVE GeneralizeKeepOld(_, _, _, _, _)
GeneralizeKeepOld(Sx, Gx, instance, i, Snew) ==
    IF i > Len(Sx) THEN Snew
    ELSE IF ~_match(Sx[i], instance)
         THEN LET generalization == _getMinGeneralization(Sx[i], instance)
              IN  CHOOSE r \in
                      {GeneralizeKeepOld(Sx, Gx, instance, i + 1, new) :
                          new \in {IF _processGeneralization(generalization, Gx)
                                   THEN Append(Snew, generalization)
                                   ELSE Snew}} : TRUE
         ELSE GeneralizeKeepOld(Sx, Gx, instance, i + 1, Snew)

\* lines 35-43: the S side of a positive example, G already filtered
RECURSIVE GeneralizeFrom(_, _, _, _, _)
GeneralizeFrom(Sx, Gx, instance, i, Snew) ==
    IF i > Len(Sx) THEN Snew
    ELSE IF ~_match(Sx[i], instance)
         THEN LET removed == ListRemove(Snew, Sx[i])
                  generalization == _getMinGeneralization(Sx[i], instance)
              IN  CHOOSE r \in
                      {GeneralizeFrom(Sx, Gx, instance, i + 1, new) :
                          new \in {IF _processGeneralization(generalization, Gx)
                                   THEN Append(removed, generalization)
                                   ELSE removed}} : TRUE
         ELSE GeneralizeFrom(Sx, Gx, instance, i + 1, Snew)

\* variant: g is removed from Gnew whether or not it matches the instance
RECURSIVE SpecializeAlwaysRemove(_, _, _, _, _, _)
SpecializeAlwaysRemove(Sx, Gx, instance, n, i, Gnew) ==
    IF i > Len(Gx) THEN Gnew
    ELSE SpecializeAlwaysRemove(Sx, Gx, instance, n, i + 1,
            ListRemove(Gnew, Gx[i])
            \o _processSpecializations(
                   _getMinSpecializations(Gx[i], instance), Sx, n))

\* lines 47-54: the G side of a negative example, S already filtered
RECURSIVE SpecializeFrom(_, _, _, _, _, _)
SpecializeFrom(Sx, Gx, instance, n, i, Gnew) ==
    IF i > Len(Gx) THEN Gnew
    ELSE LET kept == IF _match(Gx[i], instance)
                     THEN ListRemove(Gnew, Gx[i])
                     ELSE Gnew
             specializations ==
                 _processSpecializations(
                     _getMinSpecializations(Gx[i], instance), Sx, n)
         IN  CHOOSE r \in
                 {SpecializeFrom(Sx, Gx, instance, n, i + 1, new) :
                     new \in {kept \o specializations}} : TRUE

\* lines 32-56: the update for one example; the result is <<S, G>>
PositiveUpdate(Sx, Gx, instance) ==
    CHOOSE r \in UNION
        {{<<_removeMoreGeneral(Snew), G1>> :
             Snew \in {GeneralizeFrom(Sx, G1, instance, 1, Sx)}} :
         G1 \in {_removeNonMatching(Gx, instance)}} : TRUE

NegativeUpdate(Sx, Gx, instance, n) ==
    CHOOSE r \in UNION
        {{<<S1, _removeMoreSpecific(Gnew)>> :
             Gnew \in {SpecializeFrom(S1, Gx, instance, n, 1, Gx)}} :
         S1 \in {_removeMatching(Sx, instance)}} : TRUE

Update(Sx, Gx, example, n) ==
    IF _isPositive(example)
    THEN PositiveUpdate(Sx, Gx, example[1])
    ELSE NegativeUpdate(Sx, Gx, example[1], n)

\* variant: two empty boundaries do not count as converged
ConvergedNonEmpty(Sx, Gx) == Sx = Gx /\ Sx # << >>

\* variant: the boundaries are compared by size only
ConvergedSameLength(Sx, Gx) == Len(Sx) = Len(Gx)

\* line 69: Python list equality
Converged(Sx, Gx) == Sx = Gx

(* ---------------- Representation: the classifier ---------------- *)
None == << "None" >>

Digit(d) == CASE d = 0 -> "0" [] d = 1 -> "1" [] d = 2 -> "2" [] d = 3 -> "3"
              [] d = 4 -> "4" [] d = 5 -> "5" [] d = 6 -> "6" [] d = 7 -> "7"
              [] d = 8 -> "8" [] OTHER -> "9"

\* str(int) for a non-negative int, as the sequence of its characters
RECURSIVE str(_)
str(k) == IF k < 10 THEN << Digit(k) >>
          ELSE str(k \div 10) \o << Digit(k % 10) >>

\* variant: a half is rounded to the nearest even integer (Python 3 round)
roundHalfToEven(length) ==
    IF length % 2 = 0 THEN length \div 2
    ELSE IF ((length - 1) \div 2) % 2 = 0 THEN (length - 1) \div 2
    ELSE (length + 1) \div 2

\* Python 2 round(0.5 * length): a half is rounded away from zero
round(length) == IF length % 2 = 0 THEN length \div 2 ELSE (length + 1) \div 2

_noGmatch(Gx, example) == ~(\E i \in 1..Len(Gx) : _match(Gx[i], example))

\* the set built by _enumerateVersionSpace (S[0] exists when it is called)
_enumerateVersionSpace(Sx, Gx) ==
    LET s == Sx[1]
    IN  Range(Sx) \cup Range(Gx) \cup
        {[Gx[j] EXCEPT ![i] = s[i]] :
            <<j, i>> \in {p \in (1..Len(Gx)) \X (1..Len(s)) :
                            Gx[p[1]][p[2]] # s[p[2]]}}

_performVoting(sToG, example) ==
    LET satisfiedCount == Cardinality({hyp \in sToG : _match(hyp, example)})
        length == Cardinality(sToG)
        half == round(length)
    IN  [raised |-> "", 
         label |-> IF satisfiedCount >= half THEN Positive ELSE Negative,
         evidence |-> str(satisfiedCount) \o << "/" >> \o str(length)]

\* classify: S[0] on an empty list raises IndexError
classify(Sx, Gx, example) ==
    IF Sx = << >>
    THEN [raised |-> "IndexError", label |-> -1, evidence |-> None]
    ELSE IF _match(Sx[1], example)
    THEN [raised |-> "", label |-> Positive, evidence |-> None]
    ELSE IF _noGmatch(Gx, example)
    THEN [raised |-> "", label |-> Negative, evidence |-> None]
    ELSE _performVoting(_enumerateVersionSpace(Sx, Gx), example)

NoResult == [raised |-> "", label |-> -1, evidence |-> None]

(* ---------------- the state machine ---------------- *)
\* Representation(trainingSet): numFactors is read from the first example,
\* then _runAlgorithm seeds G and S (lines 27-30, 159-161)
Init ==
    /\ \E n \in 1..MaxFactors : \E len \in 1..MaxLen :
          /\ n * len <= MaxCells
          /\ trainingSet \in TrainingSets(n, len)
    /\ numFactors = Len(trainingSet[1][1])
    /\ G = _initializeG(numFactors)
    /\ S = _initializeS(numFactors)
    /\ count = 0
    /\ pc = "loop"
    /\ query = << >>
    /\ result = NoResult
    /\ callHyp1 = << >>
    /\ callHyp2 = << >>
    /\ more = << >>
    /\ specific = << >>

\* variant: the loop does not move on to the next example
PositiveExampleNoAdvance ==
    /\ pc = "loop"
    /\ count < Len(trainingSet)
    /\ ValidLabel(trainingSet[count + 1])
    /\ _isPositive(trainingSet[count + 1])
    /\ LET new == PositiveUpdate(S, G, trainingSet[count + 1][1])
       IN  /\ S' = new[1]
           /\ G' = new[2]
           /\ IF Converged(new[1], new[2])
              THEN pc' = "done" /\ count' = count
              ELSE pc' = "loop" /\ count' = count
    /\ UNCHANGED <<trainingSet, numFactors, query, result, order>>

\* one iteration of the for loop on a positive example (lines 31-43, 69-72)
PositiveExample ==
    /\ pc = "loop"
    /\ count < Len(trainingSet)
    /\ ValidLabel(trainingSet[count + 1])
    /\ _isPositive(trainingSet[count + 1])
    /\ LET new == PositiveUpdate(S, G, trainingSet[count + 1][1])
       IN  /\ S' = new[1]
           /\ G' = new[2]
           /\ IF Converged(new[1], new[2])
              THEN pc' = "done" /\ count' = count
              ELSE pc' = "loop" /\ count' = count + 1
    /\ UNCHANGED <<trainingSet, numFactors, query, result, order>>

\* one iteration of the for loop on a negative example (lines 31-32, 44-56,
\* 69-72)
NegativeExample ==
    /\ pc = "loop"
    /\ count < Len(trainingSet)
    /\ ValidLabel(trainingSet[count + 1])
    /\ ~_isPositive(trainingSet[count + 1])
    /\ LET new == NegativeUpdate(S, G, trainingSet[count + 1][1], numFactors)
       IN  /\ S' = new[1]
           /\ G' = new[2]
           /\ IF Converged(new[1], new[2])
              THEN pc' = "done" /\ count' = count
              ELSE pc' = "loop" /\ count' = count + 1
    /\ UNCHANGED <<trainingSet, numFactors, query, result, order>>

\* the for loop is exhausted: return G, S (line 73)
Return ==
    /\ pc = "loop"
    /\ count = Len(trainingSet)
    /\ pc' = "done"
    /\ UNCHANGED <<trainingSet, numFactors, count, S, G, query, result, order>>

\* a query against the finished classifier (lines 164-185)
Classify ==
    /\ pc = "done"
    /\ \E example \in Instances(numFactors) :
          /\ query' = example
          /\ result' = classify(S, G, example)
    /\ UNCHANGED <<trainingSet, numFactors, count, S, G, pc, order>>

Next == PositiveExample \/ NegativeExample \/ Return \/ Classify

Spec == Init /\ [][Next]_vars

\* the training run is straight-line sequential code: an iteration or the
\* return that can be taken is taken
Train == PositiveExample \/ NegativeExample \/ Return

\* before Representation(trainingSet) is called
InitNew ==
    /\ pc = "new"
    /\ trainingSet = << >>
    /\ numFactors = 0
    /\ G = << >>
    /\ S = << >>
    /\ count = 0
    /\ query = << >>
    /\ result = NoResult
    /\ callHyp1 = << >>
    /\ callHyp2 = << >>
    /\ more = << >>
    /\ specific = << >>

\* Representation(trainingSet): numFactors is read from the first example and
\* _runAlgorithm seeds G and S (lines 159-161, 27-30)
Construct ==
    /\ pc = "new"
    /\ \E n \in 1..MaxFactors : \E len \in 1..MaxLen :
          /\ n * len <= MaxFairCells
          /\ trainingSet' \in TrainingSets(n, len)
    /\ numFactors' = Len(trainingSet'[1][1])
    /\ G' = _initializeG(numFactors')
    /\ S' = _initializeS(numFactors')
    /\ pc' = "loop"
    /\ UNCHANGED <<count, query, result, order>>

NextFair == Construct \/ Next

SpecFair == InitNew /\ [][NextFair]_vars /\ WF_vars(Train)

(* ---------------- training sets with unexpected labels ---------------- *)
\* "x" stands for any label that is neither '+' nor '-'
AnyLabels == {"+", "-", "x"}

InitLabels ==
    /\ \E n \in 1..MaxFactors : \E len \in 1..MaxLen :
          /\ n * len <= MaxLabelCells
          /\ trainingSet \in [1..len -> Instances(n) \X AnyLabels]
    /\ numFactors = Len(trainingSet[1][1])
    /\ G = _initializeG(numFactors)
    /\ S = _initializeS(numFactors)
    /\ count = 0
    /\ pc = "loop"
    /\ query = << >>
    /\ result = NoResult
    /\ callHyp1 = << >>
    /\ callHyp2 = << >>
    /\ more = << >>
    /\ specific = << >>

\* _isPositive raises TypeError (line 326); nothing catches it, so it leaves
\* _runAlgorithm and Representation.__init__
RaiseLabel ==
    /\ pc = "loop"
    /\ count < Len(trainingSet)
    /\ ~ValidLabel(trainingSet[count + 1])
    /\ pc' = "error"
    /\ UNCHANGED <<trainingSet, numFactors, count, S, G, query, result, order>>

NextLabels == Next \/ RaiseLabel

SpecLabels == InitLabels /\ [][NextLabels]_vars

(* ---------------- direct calls of the generality order ---------------- *)
Factors == {"Y", "N", "?", "0"}

\* two hypotheses of equal length, nothing trained
InitOrder ==
    /\ \E n \in 1..MaxFactors :
          /\ numFactors = n
          /\ callHyp1 \in [1..n -> Factors]
          /\ callHyp2 \in [1..n -> Factors]
    /\ more = << >>
    /\ specific = << >>
    /\ trainingSet = << >>
    /\ G = << >>
    /\ S = << >>
    /\ count = 0
    /\ pc = "order"
    /\ query = << >>
    /\ result = NoResult

CallMoreGeneral ==
    /\ pc = "order"
    /\ more = << >>
    /\ more' = << _moreGeneral(callHyp1, callHyp2) >>
    /\ UNCHANGED <<trainingSet, numFactors, count, S, G, pc, query, result,
                   callHyp1, callHyp2, specific>>

CallMoreSpecific ==
    /\ pc = "order"
    /\ specific = << >>
    /\ specific' = << _moreSpecific(callHyp1, callHyp2) >>
    /\ UNCHANGED <<trainingSet, numFactors, count, S, G, pc, query, result,
                   callHyp1, callHyp2, more>>

NextOrder == CallMoreGeneral \/ CallMoreSpecific

SpecOrder == InitOrder /\ [][NextOrder]_vars

(* ---------------- derived quantities ---------------- *)
\* the loop left by break: count was not advanced past the last example
HaltedEarly == pc = "done" /\ count < Len(trainingSet)

\* number of examples the loop body has run on
Processed == IF HaltedEarly THEN count + 1 ELSE count

Seen(label) == {trainingSet[i][1] : i \in {j \in 1..Processed : trainingSet[j][2] = label}}

TypeOK ==
    /\ pc \in {"new", "loop", "done", "error", "order"}
    /\ count \in 0..Len(trainingSet)
    /\ numFactors \in 1..MaxFactors

\* S and G after the loop body has run on the first k examples
RECURSIVE Replay(_)
Replay(k) ==
    IF k = 0 THEN <<_initializeS(numFactors), _initializeG(numFactors)>>
    ELSE LET prev == Replay(k - 1)
         IN  Update(prev[1], prev[2], trainingSet[k], numFactors)

Hypotheses == Range(S) \cup Range(G)

(* ======================= properties ======================= *)

\* C1: after each processed example every hypothesis in S is
\* more-specific-or-equal (by _moreSpecific) to at least one hypothesis in G;
\* in particular S is never non-empty while G is empty.
C1_BoundaryInvariant ==
    Processed >= 1 =>
        \A s \in Range(S) : \E g \in Range(G) : _moreSpecific(s, g)

\* C2: after each processed example every hypothesis in S and in G matches
\* every positive instance processed so far and no negative instance
\* processed so far.
C2_ConsistentWithSeen ==
    Processed >= 1 =>
        \A h \in Hypotheses :
            /\ \A x \in Seen("+") : _match(h, x)
            /\ \A x \in Seen("-") : ~_match(h, x)

\* C3: after every processed example G holds no hypothesis strictly more
\* specific than another hypothesis of G, and S holds no hypothesis strictly
\* more general than another hypothesis of S.
C3_Antichain ==
    Processed >= 1 =>
        /\ \A g1, g2 \in Range(G) : g1 # g2 => ~_moreSpecific(g1, g2)
        /\ \A s1, s2 \in Range(S) : s1 # s2 => ~_moreGeneral(s1, s2)

\* a negative example has just been processed, its pruning step dropped
\* specializations, and the pruned G still holds several hypotheses
C3_Witness ==
    /\ Processed >= 1
    /\ ~_isPositive(trainingSet[Processed])
    /\ Len(G) >= 2
    /\ LET prev == Replay(Processed - 1)
           instance == trainingSet[Processed][1]
           Gnew == SpecializeFrom(_removeMatching(prev[1], instance), prev[2],
                                  instance, numFactors, 1, prev[2])
       IN  Len(Gnew) > Len(G)

\* C4: the loop stops exactly when, after an example, S and G are equal as
\* sets (list equality agrees with set equality in every reachable state);
\* while it goes on they are not set-equal; once stopped, S, G and the
\* position in the training set never change again.
C4_EarlyHalt ==
    /\ [](/\ Converged(S, G) <=> (Range(S) = Range(G))
          /\ (pc = "loop" /\ count >= 1) => Range(S) # Range(G)
          /\ HaltedEarly => Range(S) = Range(G))
    /\ [][pc = "done" =>
            (pc' = "done" /\ S' = S /\ G' = G /\ count' = count)]_vars

\* the loop broke out on a non-empty converged boundary with examples left
C4_Witness ==
    /\ HaltedEarly
    /\ Processed < Len(trainingSet)
    /\ S # << >>

\* C5 (as claimed): when _runAlgorithm returns, S == G holds.
C5_FinalConvergence == pc = "done" => S = G

\* C5 (amended): when _runAlgorithm returns, either S == G or every example
\* of the training set has been processed.
C5_ConvergedOrExhausted ==
    pc = "done" => (S = G \/ Processed = Len(trainingSet))

\* the run returned before the last example, on equal boundaries
C5_Witness ==
    /\ pc = "done"
    /\ Processed < Len(trainingSet)
    /\ S = G
    /\ Len(S) = 1

\* an example agrees with a converged boundary when the boundary is empty, or
\* the example is positive and matched by its hypothesis, or negative and not
Agrees(example) ==
    \/ S = << >>
    \/ _isPositive(example) = _match(S[1], example[1])

Remaining == (Processed + 1)..Len(trainingSet)

\* C6 (as claimed): once the loop has halted on S == G, the per-example update
\* on any remaining example leaves S and G unchanged.
C6_Idempotent ==
    HaltedEarly =>
        \A j \in Remaining :
            Update(S, G, trainingSet[j], numFactors) = <<S, G>>

\* C6 (amended): once the loop has halted on S == G, the per-example update on
\* a remaining example leaves S and G unchanged provided the example's label
\* agrees with the converged hypothesis (or the converged boundaries are empty).
C6_IdempotentOnAgreeing ==
    HaltedEarly =>
        \A j \in Remaining :
            Agrees(trainingSet[j]) =>
                Update(S, G, trainingSet[j], numFactors) = <<S, G>>

\* halted on a non-empty boundary that still has a wildcard, with a remaining
\* negative example that agrees with it (specializations are generated for it)
C6_Witness ==
    /\ HaltedEarly
    /\ S # << >>
    /\ numFactors >= 2
    /\ \E i \in 1..numFactors : S[1][i] = "?"
    /\ \E j \in Remaining :
          ~_isPositive(trainingSet[j]) /\ Agrees(trainingSet[j])

\* positions at which two instances differ
Differ(x, y) == {i \in 1..Len(x) : x[i] # y[i]}

\* C7: from the seeds, after one positive example e+ S is exactly [e+] and G
\* is unchanged; after a following negative example e- that differs from e+
\* in exactly one position k, S is still [e+] and G is exactly one hypothesis,
\* wildcard everywhere except k where it holds e+'s value.
C7_TwoExamples ==
    /\ (Processed = 1 /\ _isPositive(trainingSet[1])) =>
            /\ S = << trainingSet[1][1] >>
            /\ G = _initializeG(numFactors)
    /\ (/\ Processed = 2
        /\ _isPositive(trainingSet[1])
        /\ ~_isPositive(trainingSet[2])
        /\ Cardinality(Differ(trainingSet[1][1], trainingSet[2][1])) = 1) =>
            /\ S = << trainingSet[1][1] >>
            /\ G = << [i \in 1..numFactors |->
                        IF i \in Differ(trainingSet[1][1], trainingSet[2][1])
                        THEN trainingSet[1][1][i] ELSE "?"] >>

C7_Witness ==
    /\ Processed = 2
    /\ numFactors = MaxFactors
    /\ _isPositive(trainingSet[1])
    /\ ~_isPositive(trainingSet[2])
    /\ Cardinality(Differ(trainingSet[1][1], trainingSet[2][1])) = 1
    /\ Len(G) = 1

\* C8: for an instance that matches no hypothesis in G, classify returns
\* (negative, no evidence).
C8_CertainRejection ==
    (pc = "done" /\ query # << >> /\ _noGmatch(G, query)) =>
        result = [raised |-> "", label |-> Negative, evidence |-> None]

\* C9: when training finishes S holds exactly one hypothesis, and classify
\* always returns a (label, evidence) pair.
C9_SingletonS ==
    pc = "done" =>
        /\ Len(S) = 1
        /\ query # << >> => result.raised = ""

(* ---- the vote, restated without the classifier's own arithmetic ---- *)
\* the hypotheses classify enumerates: S, G, and each g of G with one factor
\* that differs from S[0] replaced by S[0]'s
Enumerated ==
    Hypotheses \cup
    UNION {{[k \in 1..numFactors |-> IF k = i THEN S[1][k] ELSE g[k]] :
                i \in {k \in 1..numFactors : g[k] # S[1][k]}} :
           g \in Range(G)}

Matched == Cardinality({h \in Enumerated : _match(h, query)})

Total == Cardinality(Enumerated)

\* round-half-to-even of total / 2
HalfEven(total) ==
    IF total % 2 = 0 THEN total \div 2
    ELSE IF ((total - 1) \div 2) % 2 = 0 THEN (total - 1) \div 2
    ELSE (total + 1) \div 2

DigitValue(c) == CHOOSE d \in 0..9 : Digit(d) = c

\* the number written by a string of decimal digits
RECURSIVE int(_)
int(chars) ==
    IF Len(chars) = 0 THEN 0
    ELSE 10 * int(SubSeq(chars, 1, Len(chars) - 1)) + DigitValue(chars[Len(chars)])

SlashAt(chars) == CHOOSE k \in 1..Len(chars) : chars[k] = "/"

\* the evidence string reads "<matched>/<total>"
EvidenceReads(chars, matched, total) ==
    /\ \E k \in 1..Len(chars) : chars[k] = "/"
    /\ int(SubSeq(chars, 1, SlashAt(chars) - 1)) = matched
    /\ int(SubSeq(chars, SlashAt(chars) + 1, Len(chars))) = total
    /\ chars[1] # "0" \/ matched = 0

\* the classifier had to vote on the last query
Voted ==
    /\ pc = "done"
    /\ query # << >>
    /\ S # << >>
    /\ ~_match(S[1], query)
    /\ \E g \in Range(G) : _match(g, query)

\* C10 (as claimed): a vote is positive iff matched >= round(0.5 * total) with
\* a half rounded to the nearest even integer; the evidence is matched/total.
C10_VoteHalfEven ==
    Voted =>
        /\ result.raised = ""
        /\ (result.label = Positive) <=> (Matched >= HalfEven(Total))
        /\ result.label \in {Positive, Negative}
        /\ EvidenceReads(result.evidence, Matched, Total)

\* C10 (amended): a vote is positive iff matched >= round(0.5 * total) with a
\* half rounded up (Python 2 round), i.e. iff at least half of the enumerated
\* hypotheses match; the evidence is matched/total.
C10_VoteHalfUp ==
    Voted =>
        /\ result.raised = ""
        /\ (result.label = Positive) <=> (2 * Matched >= Total)
        /\ result.label \in {Positive, Negative}
        /\ EvidenceReads(result.evidence, Matched, Total)

\* a vote over an odd number of hypotheses decided by the rounding of the half
C10_Witness ==
    /\ Voted
    /\ Total % 2 = 1
    /\ 2 * Matched = Total - 1
    /\ result.label = Negative

(* ---- the version space, by its definition ---- *)
AllHypotheses(n) == [1..n -> {"Y", "N", "?", "0"}]

\* every hypothesis between S[0] and some member of G in the generality order
VersionSpace ==
    {h \in AllHypotheses(numFactors) :
        /\ _moreGeneral(h, S[1])
        /\ \E g \in Range(G) : _moreSpecific(h, g)}

\* C11: for a trained (G, S) with S = [s], _enumerateVersionSpace returns
\* exactly the concepts of the version space: every hypothesis that is
\* more-general-or-equal to s and more-specific-or-equal to some member of G.
C11_EnumeratesVersionSpace ==
    (pc = "done" /\ Len(S) = 1) =>
        _enumerateVersionSpace(S, G) = VersionSpace

\* every instance over {Y, N} that h2 matches is matched by h1 as well
Subsumes(h1, h2) ==
    \A x \in Instances(Len(h2)) : _match(h2, x) => _match(h1, x)

\* C12: _moreGeneral(h1, h2) is true iff every instance over {Y, N} that h2
\* matches is also matched by h1, for all equal-length hypotheses with
\* factors in {Y, N, ?, 0} (h2 may be the all-null seed).
C12_OrderIsSemantic ==
    more # << >> => (more[1] <=> Subsumes(callHyp1, callHyp2))

\* C15: _moreGeneral is reflexive, and antisymmetric up to equality:
\* moreGeneral(h1, h2) and moreGeneral(h2, h1) together imply h1 = h2.
C15_ReflexiveAntisymmetric ==
    /\ (more # << >> /\ callHyp1 = callHyp2) => more[1]
    /\ (more = << TRUE >> /\ specific = << TRUE >>) => callHyp1 = callHyp2

\* both calls returned true on two hypotheses that hold wildcards and nulls
C15_Witness ==
    /\ more = << TRUE >>
    /\ specific = << TRUE >>
    /\ numFactors = MaxFactors
    /\ \E i \in 1..numFactors : callHyp1[i] = "?"
    /\ \E i \in 1..numFactors : callHyp1[i] = "0"

\* the loop has reached an example whose label is neither '+' nor '-'
AtInvalidLabel ==
    /\ pc = "loop"
    /\ count < Len(trainingSet)
    /\ trainingSet[count + 1][2] # "+"
    /\ trainingSet[count + 1][2] # "-"

\* C13: when the loop reaches an example whose label is neither '+' nor '-',
\* _isPositive raises and the error leaves _runAlgorithm: the example is not
\* processed, nothing is returned, no classifier answers a query and no later
\* example is processed.
C13_InvalidLabelPropagates ==
    /\ [][AtInvalidLabel =>
            (pc' = "error" /\ S' = S /\ G' = G /\ count' = count)]_vars
    /\ [][pc # "error"]_vars
    /\ [](pc = "error" =>
            /\ query = << >>
            /\ result = NoResult
            /\ trainingSet[count + 1][2] \notin {"+", "-"})

\* the error was raised after an example had been processed and with
\* examples left behind it
C13_Witness ==
    /\ pc = "error"
    /\ count >= 1
    /\ count + 1 < Len(trainingSet)

\* C14: for a finite training set with valid labels, the loop takes the
\* examples strictly in order, each at most once, and _runAlgorithm
\* eventually returns after at most len(trainingSet) per-example updates.
C14_Terminates ==
    /\ (pc = "loop") ~> (pc = "done")
    /\ [](Processed <= Len(trainingSet))
    /\ [][(pc = "loop" /\ count < Len(trainingSet)) =>
            /\ Processed' = Processed + 1
            /\ <<S', G'>> = Update(S, G, trainingSet[Processed + 1], numFactors)]_vars

\* the run returned after an update for every example of a longest training
\* set, without converging
C14_Witness ==
    /\ pc = "done"
    /\ Len(trainingSet) = MaxLen
    /\ Processed = Len(trainingSet)
    /\ S # G

\* the example the loop body ran on last
LastExample == trainingSet[Processed]

\* C16: immediately after a positive example is processed every hypothesis
\* left in S and in G matches its instance; immediately after a negative
\* example is processed no hypothesis in S or in G matches its instance.
C16_PerExamplePostcondition ==
    Processed >= 1 =>
        IF LastExample[2] = "+"
        THEN \A h \in Hypotheses : _match(h, LastExample[1])
        ELSE \A h \in Hypotheses : ~_match(h, LastExample[1])

\* a negative example has just specialized G into several hypotheses while S
\* holds a hypothesis learned from an earlier positive example
C16_Witness ==
    /\ Processed >= 2
    /\ LastExample[2] = "-"
    /\ trainingSet[Processed - 1][2] = "+"
    /\ Len(G) >= 2
    /\ Len(S) = 1
    /\ S # _initializeS(numFactors)

\* C17: on a negative example a hypothesis of G that does not match the
\* instance stays in G and none of its specializations is in G afterwards;
\* when no hypothesis of G matches the instance, G is left exactly as it was.
C17_NegativeFrame ==
    [][(pc = "loop" /\ count < Len(trainingSet)
            /\ trainingSet[count + 1][2] = "-") =>
        LET instance == trainingSet[count + 1][1]
            nonMatching == {g \in Range(G) : ~_match(g, instance)}
        IN  /\ \A g \in nonMatching :
                  /\ g \in Range(G')
                  /\ \A hyp \in Range(_getMinSpecializations(g, instance)) :
                         hyp \notin Range(G')
            /\ nonMatching = Range(G) => G' = G]_vars

\* the last example was negative, no hypothesis of G matched it, some
\* specialization of a member of G passed _processSpecializations, and G is
\* as it was before the example
C17_Witness ==
    /\ Processed >= 2
    /\ LastExample[2] = "-"
    /\ LET prev == Replay(Processed - 1)
       IN  /\ Len(prev[2]) >= 2
           /\ \A g \in Range(prev[2]) : ~_match(g, LastExample[1])
           /\ \E g \in Range(prev[2]) :
                  _processSpecializations(
                      _getMinSpecializations(g, LastExample[1]),
                      prev[1], numFactors) # << >>
           /\ G = prev[2]

\* the conjunctive targets that label every example of the training set
Targets ==
    {t \in [1..numFactors -> {"Y", "N", "?"}] :
        \A k \in 1..Len(trainingSet) :
            (trainingSet[k][2] = "+") <=> _match(t, trainingSet[k][1])}

\* C18: when every example is labelled by a fixed conjunctive target t, then
\* after every processed example S is non-empty and its hypothesis is the
\* all-null seed or more-specific-or-equal to t, and G is non-empty and holds
\* a hypothesis more-general-or-equal to t.
C18_TargetPreserved ==
    \A t \in Targets :
        /\ S # << >>
        /\ \A s \in Range(S) :
              s = _initializeS(numFactors)[1] \/ _moreSpecific(s, t)
        /\ G # << >>
        /\ \E g \in Range(G) : _moreGeneral(g, t)

\* examples of both labels have been processed under a target that is
\* neither the hypothesis of S nor a member of G
C18_Witness ==
    /\ Processed >= 3
    /\ Seen("+") # {} /\ Seen("-") # {}
    /\ Len(G) >= 2
    /\ \E t \in Targets : t \notin Hypotheses

\* C19: in every state of a run S holds at most one hypothesis, and every
\* hypothesis in S and in G has exactly numFactors factors, the attribute
\* count of the first training example.
C19_SingleSAndArity ==
    /\ Len(S) <= 1
    /\ numFactors = Len(trainingSet[1][1])
    /\ \A h \in Hypotheses : Len(h) = numFactors

\* S has been generalized twice (it holds a wildcard) and G has been
\* specialized into several hypotheses
C19_Witness ==
    /\ Processed >= 3
    /\ Len(S) = 1
    /\ \E i \in 1..numFactors : S[1][i] = "?"
    /\ Len(G) >= 2

\* C20: across one per-example update every hypothesis of G afterwards is
\* equal to or more specific than some hypothesis of G before it, and every
\* hypothesis of S afterwards matches every instance that the hypothesis of
\* S before it matched.
C20_MonotoneBoundaries ==
    [][(pc = "loop" /\ count < Len(trainingSet)) =>
        /\ \A gNew \in Range(G') : \E g \in Range(G) :
              gNew = g \/ _moreSpecific(gNew, g)
        /\ \A sNew \in Range(S') : \A s \in Range(S) :
              \A x \in Instances(numFactors) :
                  _match(s, x) => _match(sNew, x)]_vars

\* the last example was positive: it generalized a hypothesis of S that was
\* no longer the seed and removed a hypothesis from G
C20_Witness ==
    /\ Processed >= 3
    /\ LastExample[2] = "+"
    /\ LET prev == Replay(Processed - 1)
       IN  /\ Len(prev[1]) = 1
           /\ prev[1] # _initializeS(numFactors)
           /\ Len(S) = 1
           /\ S # prev[1]
           /\ G # << >>
           /\ Len(G) < Len(prev[2])

====
